---- MODULE Spec2Model ----
(***************************************************************************)
(* Model of the Finance-AI frontend: the zustand analysis store of         *)
(* frontend/App.jsx (userInput, isLoading, apiError, analysisResults,      *)
(* setInput, fetchAnalysis), the DashboardDisplay branch on that store,    *)
(* and the two forecast transforms (PriceForecast in App.jsx, StockChart   *)
(* in the Next.js component).                                              *)
(*                                                                         *)
(* JavaScript values are records of one uniform shape so that values of    *)
(* different JavaScript types can be compared.  A JavaScript string is a   *)
(* sequence of lexical tokens: "Error: model unavailable" is               *)
(* <<"Error:", " model unavailable">>, and a JSON text is the sequence of  *)
(* its JSON tokens.  Numbers are kept in tenths (175.5 is 1755).           *)
(***************************************************************************)
EXTENDS Integers, Sequences, FiniteSets, TLC

VARIABLES
  userInput,        \* store.userInput
  isLoading,        \* store.isLoading
  apiError,         \* store.apiError
  analysisResults,  \* store.analysisResults
  awaiting,         \* suspended fetchAnalysis calls: request id -> captured userInput
  netlog,           \* transport log: requests issued and settlements delivered
  chartData,        \* the `data` prop handed to a forecast chart
  chart,            \* what the chart component computed from chartData
  formState         \* the formState prop of SearchForm, when that form is mounted

vars == <<userInput, isLoading, apiError, analysisResults, awaiting, netlog,
          chartData, chart, formState>>

storeVars == <<userInput, isLoading, apiError, analysisResults, awaiting, netlog>>
chartVars == <<chartData, chart>>

-----------------------------------------------------------------------------
(* Bounds *)

MaxRequests == 2     \* fetchAnalysis calls in one run
MaxPoints == 3       \* length of the generated ForecastPoint sequences

-----------------------------------------------------------------------------
(* JavaScript values *)

JSValue(t, n, s, a, o) == [t |-> t, n |-> n, s |-> s, a |-> a, o |-> o]

Undefined == JSValue("undefined", 0, <<>>, <<>>, <<>>)
Null == JSValue("null", 0, <<>>, <<>>, <<>>)
Tenths(n) == JSValue("num", n, <<>>, <<>>, <<>>)
Num(n) == Tenths(10 * n)
Str(s) == JSValue("str", 0, s, <<>>, <<>>)
Arr(a) == JSValue("arr", 0, <<>>, a, <<>>)
Obj(o) == JSValue("obj", 0, <<>>, <<>>, o)
NaN == JSValue("NaN", 0, <<>>, <<>>, <<>>)

\* property read v.k : undefined when the property is absent
Get(v, k) == IF v.t = "obj" /\ k \in DOMAIN v.o THEN v.o[k] ELSE Undefined

\* JavaScript truthiness, as used by `if (x)`, `!x` and `x || y`
Truthy(v) ==
  CASE v.t = "undefined" -> FALSE
    [] v.t = "null" -> FALSE
    [] v.t = "num" -> v.n # 0
    [] v.t = "NaN" -> FALSE
    [] v.t = "str" -> v.s # <<>>
    [] OTHER -> TRUE

\* String(v), as `new Error(v)` and template literals apply it
JSString(v) ==
  CASE v.t = "str" -> v.s
    [] v.t = "num" -> <<"<number>">>
    [] v.t = "null" -> <<"null">>
    [] v.t = "undefined" -> <<"undefined">>
    [] v.t = "arr" -> <<"<array>">>
    [] OTHER -> <<"[object Object]">>

\* s.startsWith(prefix) for a one-token prefix
StartsWith(s, prefix) == Len(s) >= 1 /\ s[1] = prefix

-----------------------------------------------------------------------------
(* JSON.parse over token sequences *)

NumLit ==
  "42" :> 42 @@ "185" :> 185 @@ "190" :> 190 @@ "210" :> 210 @@
  "175" :> 175 @@ "18" :> 18 @@ "168" :> 168

StrLit ==
  "\"analysis\"" :> "analysis" @@ "\"keyNews\"" :> "keyNews" @@
  "\"forecastData\"" :> "forecastData" @@
  "\"investmentAdvice\"" :> "investmentAdvice" @@
  "\"recommendedStocks\"" :> "recommendedStocks" @@
  "\"month\"" :> "month" @@ "\"price\"" :> "price" @@ "\"type\"" :> "type" @@
  "\"entryPoint\"" :> "entryPoint" @@ "\"expectedReturn\"" :> "expectedReturn" @@
  "\"stopLoss\"" :> "stopLoss" @@ "\"ticker\"" :> "ticker" @@
  "\"reason\"" :> "reason" @@
  "\"history\"" :> "history" @@ "\"forecast\"" :> "forecast" @@
  "\"Aug\"" :> "Aug" @@ "\"Sep\"" :> "Sep" @@
  "\"MSFT\"" :> "MSFT" @@ "\"NVDA\"" :> "NVDA" @@
  "\"Hold.\"" :> "Hold." @@ "\"Buy.\"" :> "Buy." @@
  "\"Earnings beat.\"" :> "Earnings beat." @@ "\"Guidance cut.\"" :> "Guidance cut." @@
  "\"Stable.\"" :> "Stable." @@ "\"Growth.\"" :> "Growth."

ParseOk(v, i) == [ok |-> TRUE, v |-> v, i |-> i]
ParseFail == [ok |-> FALSE, v |-> Undefined, i |-> 0]

RECURSIVE ParseValue(_, _), ParseElements(_, _, _), ParseMembers(_, _, _)

\* value ::= null | number | string | array | object, starting at token i
ParseValue(toks, i) ==
  IF i > Len(toks) THEN ParseFail
  ELSE LET tk == toks[i] IN
    CASE tk = "null" -> ParseOk(Null, i + 1)
      [] tk \in DOMAIN NumLit -> ParseOk(Num(NumLit[tk]), i + 1)
      [] tk \in DOMAIN StrLit -> ParseOk(Str(<<StrLit[tk]>>), i + 1)
      [] tk = "[" ->
           IF i + 1 <= Len(toks) /\ toks[i + 1] = "]"
           THEN ParseOk(Arr(<<>>), i + 2)
           ELSE ParseElements(toks, i + 1, <<>>)
      [] tk = "{" ->
           IF i + 1 <= Len(toks) /\ toks[i + 1] = "}"
           THEN ParseOk(Obj(<<>>), i + 2)
           ELSE ParseMembers(toks, i + 1, <<>>)
      [] OTHER -> ParseFail

\* elements ::= value ("," value)* "]"
ParseElements(toks, i, acc) ==
  LET r == ParseValue(toks, i) IN
  IF ~r.ok \/ r.i > Len(toks) THEN ParseFail
  ELSE IF toks[r.i] = "," THEN ParseElements(toks, r.i + 1, Append(acc, r.v))
  ELSE IF toks[r.i] = "]" THEN ParseOk(Arr(Append(acc, r.v)), r.i + 1)
  ELSE ParseFail

\* members ::= string ":" value ("," string ":" value)* "}" ; a repeated key
\* keeps its last value
ParseMembers(toks, i, acc) ==
  IF i + 1 > Len(toks) \/ toks[i] \notin DOMAIN StrLit \/ toks[i + 1] # ":"
  THEN ParseFail
  ELSE LET r == ParseValue(toks, i + 2)
           o == (StrLit[toks[i]] :> r.v) @@ acc
       IN IF ~r.ok \/ r.i > Len(toks) THEN ParseFail
          ELSE IF toks[r.i] = "," THEN ParseMembers(toks, r.i + 1, o)
          ELSE IF toks[r.i] = "}" THEN ParseOk(Obj(o), r.i + 1)
          ELSE ParseFail

SyntaxErrorMessage == <<"Unexpected token in JSON">>

\* JSON.parse(text): the value, or a thrown SyntaxError
JSONParse(text) ==
  LET r == ParseValue(text, 1) IN
  IF r.ok /\ r.i = Len(text) + 1
  THEN [ok |-> TRUE, v |-> r.v]
  ELSE [ok |-> FALSE, v |-> Undefined]

-----------------------------------------------------------------------------
(* The store's initial data *)

API_BASE_URL == "http://127.0.0.1:8000"

Point(month, price, type) ==
  Obj("month" :> Str(<<month>>) @@ "price" :> Num(price) @@ "type" :> Str(<<type>>))

mockForecast ==
  << Point("Jan", 150, "history"), Point("Feb", 155, "history"),
     Point("Mar", 160, "history"), Point("Apr", 165, "history"),
     Point("May", 170, "history"), Point("Jun", 175, "history"),
     Point("Jul", 180, "history"), Point("Aug", 185, "history"),
     Point("Sep", 190, "forecast"), Point("Oct", 195, "forecast"),
     Point("Nov", 200, "forecast"), Point("Dec", 205, "forecast") >>

mockData ==
  Obj("analysis" :> Str(<<"This is a mock analysis. Fill out the form and click 'Analyze' to get a live response.">>) @@
      "keyNews" :> Str(<<"Mock news summary. The backend will provide real data.">>) @@
      "forecastData" :> Arr(mockForecast) @@
      "investmentAdvice" :>
         Obj("entryPoint" :> Tenths(1755) @@ "expectedReturn" :> Tenths(180) @@
             "stopLoss" :> Tenths(1680)) @@
      "recommendedStocks" :>
         Arr(<< Obj("ticker" :> Str(<<"MSFT">>) @@ "name" :> Str(<<"Microsoft">>) @@
                    "reason" :> Str(<<"Matches your long-term, stable tech preference.">>)),
                Obj("ticker" :> Str(<<"GOOGL">>) @@ "name" :> Str(<<"Google">>) @@
                    "reason" :> Str(<<"Aligns with your interest in high-growth tech.">>)) >>))

\* strings typed into the form are sequences of characters
initialUserInput ==
  [ ticker |-> <<"A", "A", "P", "L">>,
    financialCondition |-> << <<"S", "t", "a", "b", "l", "e">> >>,
    expectedReturn |-> Num(15),
    riskTolerance |-> "Medium",
    tradingPreferences |-> <<"l", "o", "n", "g">> ]

-----------------------------------------------------------------------------
(* What the transport (axios.post) can deliver to a suspended fetchAnalysis *)

PointText(month, price, type) ==
  <<"{", "\"month\"", ":", month, ",", "\"price\"", ":", price, ",",
    "\"type\"", ":", type, "}">>

ResultText(analysis, keyNews, price, ticker, reason) ==
  <<"{", "\"analysis\"", ":", analysis, ",", "\"keyNews\"", ":", keyNews, ",",
    "\"forecastData\"", ":", "[">>
  \o PointText("\"Aug\"", "185", "\"history\"") \o <<",">>
  \o PointText("\"Sep\"", price, "\"forecast\"")
  \o <<"]", ",", "\"investmentAdvice\"", ":", "{", "\"entryPoint\"", ":", "175", ",",
       "\"expectedReturn\"", ":", "18", ",", "\"stopLoss\"", ":", "168", "}", ",",
       "\"recommendedStocks\"", ":", "[", "{", "\"ticker\"", ":", ticker, ",",
       "\"reason\"", ":", reason, "}", "]", "}">>

ResultTextA ==
  ResultText("\"Hold.\"", "\"Earnings beat.\"", "190", "\"MSFT\"", "\"Stable.\"")
ResultTextB ==
  ResultText("\"Buy.\"", "\"Guidance cut.\"", "210", "\"NVDA\"", "\"Growth.\"")

\* A settlement of the request promise.  fulfilled: `data` is response.data.
\* Rejected: the axios error has .response (with .response.data = data) when
\* hasResponse, .request when hasRequest, and .message.
Delivery(fulfilled, data, hasResponse, hasRequest, message) ==
  [fulfilled |-> fulfilled, data |-> data, hasResponse |-> hasResponse,
   hasRequest |-> hasRequest, message |-> message]

Fulfilled(data) == Delivery(TRUE, data, TRUE, TRUE, <<>>)
AnalysisBody(text) == Obj("analysis" :> Str(text))

StatusMessage == <<"Request failed with status code 500">>
TimeoutMessage == <<"timeout exceeded">>
SetupMessage == <<"Invalid URL">>
ServerDetail == <<"Ticker not found">>
ErrorField == <<"Analysis service overloaded">>
ErrorPayload == <<"Error:", " model unavailable">>

Outcome ==
  "http_detail" :> Delivery(FALSE, Obj("detail" :> Str(ServerDetail)), TRUE, TRUE, StatusMessage) @@
  "http_detail_norequest" :> Delivery(FALSE, Obj("detail" :> Str(ServerDetail)), TRUE, FALSE, StatusMessage) @@
  "http_nodetail" :> Delivery(FALSE, Obj(<<>>), TRUE, TRUE, StatusMessage) @@
  "no_response" :> Delivery(FALSE, Undefined, FALSE, TRUE, TimeoutMessage) @@
  "setup_error" :> Delivery(FALSE, Undefined, FALSE, FALSE, SetupMessage) @@
  "error_field" :> Fulfilled(Obj("error" :> Str(ErrorField))) @@
  "analysis_missing" :> Fulfilled(Obj(<<>>)) @@
  "analysis_empty" :> Fulfilled(AnalysisBody(<<>>)) @@
  "analysis_error_prefix" :> Fulfilled(AnalysisBody(ErrorPayload)) @@
  "analysis_not_json" :> Fulfilled(AnalysisBody(<<"Sorry,", " no analysis today">>)) @@
  "analysis_json_null" :> Fulfilled(AnalysisBody(<<"null">>)) @@
  "analysis_json_number" :> Fulfilled(AnalysisBody(<<"42">>)) @@
  "analysis_json_partial" :> Fulfilled(AnalysisBody(<<"{", "\"analysis\"", ":", "\"Hold.\"", "}">>)) @@
  "result_a" :> Fulfilled(AnalysisBody(ResultTextA)) @@
  "result_b" :> Fulfilled(AnalysisBody(ResultTextB))

Outcomes == DOMAIN Outcome

-----------------------------------------------------------------------------
(* fetchAnalysis: the try block after the await, and the catch block *)

JSError(hasResponse, data, hasRequest, message) ==
  [hasResponse |-> hasResponse, data |-> data, hasRequest |-> hasRequest,
   message |-> message]

\* `new Error(value)`: no response, no request
NewError(value) == JSError(FALSE, Undefined, FALSE, JSString(value))

Returned(aiData) ==
  [threw |-> FALSE, aiData |-> aiData, error |-> NewError(Undefined)]
Thrown(error) == [threw |-> TRUE, aiData |-> Undefined, error |-> error]

EmptyResponseMessage == <<"Empty response from AI">>
NotAFunctionMessage == <<"aiResponseJsonString.startsWith is not a function">>

\* the body of `try` once the awaited promise has settled with delivery d
TryBlock(d) ==
  IF ~d.fulfilled
  THEN Thrown(JSError(d.hasResponse, d.data, d.hasRequest, d.message))
  ELSE IF Truthy(Get(d.data, "error"))
  THEN Thrown(NewError(Get(d.data, "error")))
  ELSE LET aiResponseJsonString == Get(d.data, "analysis") IN
    IF ~Truthy(aiResponseJsonString)
    THEN Thrown(NewError(Str(EmptyResponseMessage)))
    ELSE IF aiResponseJsonString.t # "str"
    THEN Thrown(NewError(Str(NotAFunctionMessage)))
    ELSE IF StartsWith(aiResponseJsonString.s, "Error:")
    THEN Thrown(NewError(aiResponseJsonString))
    ELSE LET parsed == JSONParse(aiResponseJsonString.s) IN
      IF parsed.ok THEN Returned(parsed.v)
      ELSE Thrown(NewError(Str(SyntaxErrorMessage)))

GenericMessage == <<"Failed to fetch analysis.">>
ConnectionMessage ==
  <<"Connection Error: Is the Python server running at ", API_BASE_URL, "?">>

\* catch block that tests error.request before error.response
CatchMessage_RequestFirst(error) ==
  LET detail == Get(error.data, "detail")
  IN IF error.hasRequest
     THEN ConnectionMessage
     ELSE IF error.hasResponse
     THEN <<"Server Error: ">> \o
          (IF Truthy(detail) THEN JSString(detail) ELSE error.message)
     ELSE error.message

\* catch block without the final `else`, so the initial message survives
CatchMessage_NoElse(error) ==
  LET detail == Get(error.data, "detail")
  IN IF error.hasResponse
     THEN <<"Server Error: ">> \o
          (IF Truthy(detail) THEN JSString(detail) ELSE error.message)
     ELSE IF error.hasRequest
     THEN ConnectionMessage
     ELSE GenericMessage

\* the message the catch block stores for a caught error
CatchMessage(error) ==
  LET initial == GenericMessage
      detail == Get(error.data, "detail")
  IN IF error.hasResponse
     THEN <<"Server Error: ">> \o
          (IF Truthy(detail) THEN JSString(detail) ELSE error.message)
     ELSE IF error.hasRequest
     THEN ConnectionMessage
     ELSE error.message

-----------------------------------------------------------------------------
(* DashboardDisplay *)

ResultFields ==
  {"ticker", "forecastData", "investmentAdvice", "recommendedStocks",
   "analysis", "keyNews"}

\* DashboardDisplay without the `if (apiError)` return
DashboardDisplay_NoErrorBranch ==
  IF isLoading THEN "spinner" ELSE "results"

\* which of the three returns of DashboardDisplay is taken
DashboardDisplay ==
  IF isLoading THEN "spinner"
  ELSE IF Truthy(apiError) THEN "error"
  ELSE "results"

\* the properties of analysisResults the taken return reads
FieldsRead == IF DashboardDisplay = "results" THEN ResultFields ELSE {}

-----------------------------------------------------------------------------
(* The store *)

\* one transport event: a request issued by call `id`, or the settlement of
\* that request with the delivery named `outcome`; `view` is what the
\* dashboard showed when the event happened
LogEntry(op, id, outcome, view) ==
  [op |-> op, id |-> id, outcome |-> outcome, view |-> view]

RECURSIVE CountOp(_, _)
CountOp(log, op) ==
  IF log = <<>> THEN 0
  ELSE (IF log[Len(log)].op = op THEN 1 ELSE 0) + CountOp(SubSeq(log, 1, Len(log) - 1), op)

Issued == CountOp(netlog, "request")
Settled == CountOp(netlog, "settle")

\* the Vite application of App.jsx has no SearchForm
NoSearchForm == [mounted |-> FALSE, state |-> initialUserInput]

NoChart ==
  [component |-> "none", placeholder |-> FALSE, historyData |-> <<>>,
   forecastData |-> <<>>, connector |-> <<>>]

Init ==
  /\ userInput = initialUserInput
  /\ isLoading = FALSE
  /\ apiError = Null
  /\ analysisResults = mockData
  /\ awaiting = {}
  /\ netlog = <<>>
  /\ chartData = mockForecast
  /\ chart = NoChart
  /\ formState = NoSearchForm

TickerInputs == { <<"A", "A", "P", "L">>, <<"M", "S", "F", "T">> }

\* setInput that replaces the request flags along with the field
setInput_ResetsLoading(key, value) ==
  /\ userInput' = [userInput EXCEPT ![key] = value]
  /\ isLoading' = FALSE
  /\ UNCHANGED <<apiError, analysisResults, awaiting, netlog>>
  /\ UNCHANGED chartVars
  /\ UNCHANGED formState

\* setInput that spreads the profile the store was created with
setInput_ResetsOthers(key, value) ==
  /\ userInput' = [initialUserInput EXCEPT ![key] = value]
  /\ UNCHANGED <<isLoading, apiError, analysisResults, awaiting, netlog>>
  /\ UNCHANGED chartVars
  /\ UNCHANGED formState

\* setInput(key, value)
setInput(key, value) ==
  /\ userInput' = [userInput EXCEPT ![key] = value]
  /\ UNCHANGED <<isLoading, apiError, analysisResults, awaiting, netlog>>
  /\ UNCHANGED chartVars
  /\ UNCHANGED formState

\* fetchAnalysis whose first set() is { isLoading: true } only
fetchAnalysis_KeepsError ==
  /\ Issued < MaxRequests
  /\ awaiting' = awaiting \cup {[id |-> Issued + 1, body |-> userInput]}
  /\ isLoading' = TRUE
  /\ netlog' = Append(netlog, LogEntry("request", Issued + 1, "", DashboardDisplay))
  /\ UNCHANGED <<userInput, analysisResults, apiError>>
  /\ UNCHANGED chartVars
  /\ UNCHANGED formState

\* fetchAnalysis whose first set() also resets analysisResults to null
fetchAnalysis_ClearsResult ==
  /\ Issued < MaxRequests
  /\ awaiting' = awaiting \cup {[id |-> Issued + 1, body |-> userInput]}
  /\ isLoading' = TRUE
  /\ apiError' = Null
  /\ analysisResults' = Null
  /\ netlog' = Append(netlog, LogEntry("request", Issued + 1, "", DashboardDisplay))
  /\ UNCHANGED userInput
  /\ UNCHANGED chartVars
  /\ UNCHANGED formState

\* fetchAnalysis whose first set() is { apiError: null } only
fetchAnalysis_NoLoadingFlag ==
  /\ Issued < MaxRequests
  /\ awaiting' = awaiting \cup {[id |-> Issued + 1, body |-> userInput]}
  /\ apiError' = Null
  /\ netlog' = Append(netlog, LogEntry("request", Issued + 1, "", DashboardDisplay))
  /\ UNCHANGED <<userInput, analysisResults, isLoading>>
  /\ UNCHANGED chartVars
  /\ UNCHANGED formState

\* fetchAnalysis(), from the call to the suspension at `await axios.post(...)`
fetchAnalysis ==
  /\ Issued < MaxRequests
  /\ awaiting' = awaiting \cup {[id |-> Issued + 1, body |-> userInput]}
  /\ isLoading' = TRUE
  /\ apiError' = Null
  /\ netlog' = Append(netlog, LogEntry("request", Issued + 1, "", DashboardDisplay))
  /\ UNCHANGED <<userInput, analysisResults>>
  /\ UNCHANGED chartVars
  /\ UNCHANGED formState

\* fetchAnalysis whose catch block also resets analysisResults to null
fetchAnalysisResume_DropsResult(call, outcome) ==
  /\ call \in awaiting
  /\ LET t == TryBlock(Outcome[outcome]) IN
       IF t.threw
       THEN /\ isLoading' = FALSE
            /\ apiError' = Str(CatchMessage(t.error))
            /\ analysisResults' = Null
       ELSE /\ analysisResults' = t.aiData
            /\ isLoading' = FALSE
            /\ UNCHANGED apiError
  /\ awaiting' = awaiting \ {call}
  /\ netlog' = Append(netlog, LogEntry("settle", call.id, outcome, DashboardDisplay))
  /\ UNCHANGED userInput
  /\ UNCHANGED chartVars
  /\ UNCHANGED formState

\* fetchAnalysis whose catch block posts the request again
fetchAnalysisResume_RetriesOnFailure(call, outcome) ==
  /\ call \in awaiting
  /\ LET t == TryBlock(Outcome[outcome]) IN
       IF t.threw
       THEN /\ isLoading' = FALSE
            /\ apiError' = Str(CatchMessage(t.error))
            /\ UNCHANGED analysisResults
            /\ awaiting' = awaiting
       ELSE /\ analysisResults' = t.aiData
            /\ isLoading' = FALSE
            /\ UNCHANGED apiError
            /\ awaiting' = awaiting \ {call}
  /\ netlog' = Append(netlog, LogEntry("settle", call.id, outcome, DashboardDisplay))
  /\ UNCHANGED userInput
  /\ UNCHANGED chartVars
  /\ UNCHANGED formState

\* fetchAnalysis whose catch block is set({ apiError: errorMessage }) only
fetchAnalysisResume_CatchKeepsLoading(call, outcome) ==
  /\ call \in awaiting
  /\ LET t == TryBlock(Outcome[outcome]) IN
       IF t.threw
       THEN /\ apiError' = Str(CatchMessage(t.error))
            /\ UNCHANGED <<analysisResults, isLoading>>
       ELSE /\ analysisResults' = t.aiData
            /\ isLoading' = FALSE
            /\ UNCHANGED apiError
  /\ awaiting' = awaiting \ {call}
  /\ netlog' = Append(netlog, LogEntry("settle", call.id, outcome, DashboardDisplay))
  /\ UNCHANGED userInput
  /\ UNCHANGED chartVars
  /\ UNCHANGED formState

\* fetchAnalysis whose success set() is { analysisResults: aiData } only
fetchAnalysisResume_SuccessKeepsLoading(call, outcome) ==
  /\ call \in awaiting
  /\ LET t == TryBlock(Outcome[outcome]) IN
       IF t.threw
       THEN /\ isLoading' = FALSE
            /\ apiError' = Str(CatchMessage(t.error))
            /\ UNCHANGED analysisResults
       ELSE /\ analysisResults' = t.aiData
            /\ UNCHANGED <<apiError, isLoading>>
  /\ awaiting' = awaiting \ {call}
  /\ netlog' = Append(netlog, LogEntry("settle", call.id, outcome, DashboardDisplay))
  /\ UNCHANGED userInput
  /\ UNCHANGED chartVars
  /\ UNCHANGED formState

\* fetchAnalysis(), resumed when the request of call `call` settles with the
\* delivery named `outcome`, to the end of the function
fetchAnalysisResume(call, outcome) ==
  /\ call \in awaiting
  /\ LET t == TryBlock(Outcome[outcome]) IN
       IF t.threw
       THEN /\ isLoading' = FALSE
            /\ apiError' = Str(CatchMessage(t.error))
            /\ UNCHANGED analysisResults
       ELSE /\ analysisResults' = t.aiData
            /\ isLoading' = FALSE
            /\ UNCHANGED apiError
  /\ awaiting' = awaiting \ {call}
  /\ netlog' = Append(netlog, LogEntry("settle", call.id, outcome, DashboardDisplay))
  /\ UNCHANGED userInput
  /\ UNCHANGED chartVars
  /\ UNCHANGED formState

ChangeTicker == \E value \in TickerInputs : setInput("ticker", value)
Submit == fetchAnalysis
Settle == \E call \in awaiting : \E outcome \in Outcomes : fetchAnalysisResume(call, outcome)

Next == ChangeTicker \/ Submit \/ Settle

Spec == Init /\ [][Next]_vars

\* every request the transport has accepted is eventually settled
LiveSpec == Spec /\ WF_vars(Settle)

-----------------------------------------------------------------------------
(* The forms: ProfileInputForm of App.jsx and SearchForm of the Next.js
   frontend.  Text typed into a field is a sequence of characters. *)

UpperCase ==
  "a" :> "A" @@ "b" :> "B" @@ "c" :> "C" @@ "d" :> "D" @@ "e" :> "E" @@
  "f" :> "F" @@ "g" :> "G" @@ "h" :> "H" @@ "i" :> "I" @@ "j" :> "J" @@
  "k" :> "K" @@ "l" :> "L" @@ "m" :> "M" @@ "n" :> "N" @@ "o" :> "O" @@
  "p" :> "P" @@ "q" :> "Q" @@ "r" :> "R" @@ "s" :> "S" @@ "t" :> "T" @@
  "u" :> "U" @@ "v" :> "V" @@ "w" :> "W" @@ "x" :> "X" @@ "y" :> "Y" @@
  "z" :> "Z"

\* text.toUpperCase()
ToUpperCase(text) ==
  [i \in 1..Len(text) |->
     IF text[i] \in DOMAIN UpperCase THEN UpperCase[text[i]] ELSE text[i]]

WhiteSpace == {" ", "\t", "\n"}

RECURSIVE TrimStart(_), TrimEnd(_), Split(_, _), DigitsValue(_, _)

TrimStart(text) ==
  IF text # <<>> /\ text[1] \in WhiteSpace THEN TrimStart(Tail(text)) ELSE text

TrimEnd(text) ==
  IF text # <<>> /\ text[Len(text)] \in WhiteSpace
  THEN TrimEnd(SubSeq(text, 1, Len(text) - 1))
  ELSE text

\* text.trim()
Trim(text) == TrimEnd(TrimStart(text))

\* text.split(separator): the segments between separators, empty ones included
Split(text, separator) ==
  IF \A i \in 1..Len(text) : text[i] # separator
  THEN <<text>>
  ELSE LET i == CHOOSE k \in 1..Len(text) :
                  text[k] = separator /\ \A j \in 1..(k - 1) : text[j] # separator
       IN <<SubSeq(text, 1, i - 1)>> \o Split(SubSeq(text, i + 1, Len(text)), separator)

\* text.split(',').map(s => s.trim())
SplitAndTrim(text) ==
  LET segments == Split(text, ",")
  IN [i \in 1..Len(segments) |-> Trim(segments[i])]

Digit ==
  "0" :> 0 @@ "1" :> 1 @@ "2" :> 2 @@ "3" :> 3 @@ "4" :> 4 @@
  "5" :> 5 @@ "6" :> 6 @@ "7" :> 7 @@ "8" :> 8 @@ "9" :> 9

\* value of the longest prefix of decimal digits, given the value read so far
DigitsValue(text, sofar) ==
  IF text # <<>> /\ text[1] \in DOMAIN Digit
  THEN DigitsValue(Tail(text), 10 * sofar + Digit[text[1]])
  ELSE sofar

\* parseInt(text, 10): leading white space skipped, an optional sign, then the
\* longest prefix of digits; NaN when there is no digit
ParseInt(text) ==
  LET t == TrimStart(text)
      signed == t # <<>> /\ t[1] \in {"+", "-"}
      digits == IF signed THEN Tail(t) ELSE t
      value == DigitsValue(digits, 0)
  IN IF digits = <<>> \/ digits[1] \notin DOMAIN Digit THEN NaN
     ELSE IF signed /\ t[1] = "-" THEN Num(0 - value)
     ELSE Num(value)

\* what the user can type or select
TickerTexts == { <<"m", "s", "f", "t">>, <<"A", "a", "p", "l">> }
RiskOptions == {"Low", "Medium", "High"}
ExpectedReturnTexts == { <<"2", "0">>, <<>>, <<"7", ".", "5">> }
FinancialConditionTexts == { <<"a", ",", " ", "b">>, <<"a", ",", ",", " ">> }
TradingPreferencesTexts == { <<>> }

\* the onChange handlers of ProfileInputForm
onTickerChange(text) == setInput("ticker", ToUpperCase(text))
onRiskToleranceChange(option) == setInput("riskTolerance", option)
onExpectedReturnChange(text) == setInput("expectedReturn", ParseInt(text))
onFinancialConditionChange(text) == setInput("financialCondition", SplitAndTrim(text))
onTradingPreferencesChange(text) == setInput("tradingPreferences", text)

\* the submit button of ProfileInputForm: disabled while isLoading, and the
\* browser refuses to submit while the required ticker field is empty
handleSubmit ==
  /\ ~isLoading
  /\ userInput.ticker # <<>>
  /\ fetchAnalysis

\* SearchForm.handleChange(key, value)
handleChange(key, value) ==
  /\ formState.mounted
  /\ formState' = [formState EXCEPT !.state[key] = value]
  /\ UNCHANGED storeVars
  /\ UNCHANGED chartVars

\* the onChange handlers of SearchForm
SearchFormTickerChange(text) == handleChange("ticker", ToUpperCase(text))
SearchFormRiskToleranceChange(option) == handleChange("riskTolerance", option)
SearchFormExpectedReturnChange(text) ==
  handleChange("expectedReturn",
               IF Truthy(ParseInt(text)) THEN ParseInt(text) ELSE Num(0))
SearchFormFinancialConditionChange(text) ==
  handleChange("financialCondition", SplitAndTrim(text))
SearchFormTradingPreferencesChange(text) == handleChange("tradingPreferences", text)

\* the formState the page hands to SearchForm when it mounts it
SearchFormStates ==
  { initialUserInput,
    [ ticker |-> <<"N", "V", "D", "A">>,
      financialCondition |-> << <<"D", "e", "b", "t">> >>,
      expectedReturn |-> Num(8),
      riskTolerance |-> "Low",
      tradingPreferences |-> <<>> ] }

\* either the Vite application (the store and ProfileInputForm) or the
\* Next.js page (SearchForm) is running
FormInit ==
  /\ userInput = initialUserInput
  /\ isLoading = FALSE
  /\ apiError = Null
  /\ analysisResults = mockData
  /\ awaiting = {}
  /\ netlog = <<>>
  /\ chartData = mockForecast
  /\ chart = NoChart
  /\ \/ formState = NoSearchForm
     \/ \E state \in SearchFormStates : formState = [mounted |-> TRUE, state |-> state]

EditTicker ==
  ~formState.mounted /\ \E text \in TickerTexts : onTickerChange(text)
EditRiskTolerance ==
  ~formState.mounted /\ \E option \in RiskOptions : onRiskToleranceChange(option)
EditExpectedReturn ==
  ~formState.mounted /\ \E text \in ExpectedReturnTexts : onExpectedReturnChange(text)
EditFinancialCondition ==
  ~formState.mounted /\ \E text \in FinancialConditionTexts : onFinancialConditionChange(text)
EditTradingPreferences ==
  ~formState.mounted /\ \E text \in TradingPreferencesTexts : onTradingPreferencesChange(text)
PressAnalyze == ~formState.mounted /\ handleSubmit

SearchEditTicker ==
  formState.mounted /\ \E text \in TickerTexts : SearchFormTickerChange(text)
SearchEditRiskTolerance ==
  formState.mounted /\ \E option \in RiskOptions : SearchFormRiskToleranceChange(option)
SearchEditExpectedReturn ==
  formState.mounted /\ \E text \in ExpectedReturnTexts : SearchFormExpectedReturnChange(text)
SearchEditFinancialCondition ==
  formState.mounted /\ \E text \in FinancialConditionTexts : SearchFormFinancialConditionChange(text)
SearchEditTradingPreferences ==
  formState.mounted /\ \E text \in TradingPreferencesTexts : SearchFormTradingPreferencesChange(text)

FormNext ==
  \/ EditTicker \/ EditRiskTolerance \/ EditExpectedReturn
  \/ EditFinancialCondition \/ EditTradingPreferences \/ PressAnalyze
  \/ SearchEditTicker \/ SearchEditRiskTolerance \/ SearchEditExpectedReturn
  \/ SearchEditFinancialCondition \/ SearchEditTradingPreferences

FormSpec == FormInit /\ [][FormNext]_vars

-----------------------------------------------------------------------------
(* The forecast charts *)

IsHistory(d) == Get(d, "type") = Str(<<"history">>)
\* the forecast filter comparing against a differently spelled tag
IsForecast_Capitalised(d) == Get(d, "type") = Str(<<"Forecast">>)
IsForecast(d) == Get(d, "type") = Str(<<"forecast">>)

\* PriceForecast whose connector is the forecast points alone
PriceForecast_NoAnchor(data) ==
  LET historyData == SelectSeq(data, IsHistory)
      forecastData == SelectSeq(data, IsForecast)
  IN [component |-> "PriceForecast", placeholder |-> FALSE,
      historyData |-> historyData, forecastData |-> forecastData,
      connector |-> forecastData]

\* PriceForecast({ data }) of App.jsx
PriceForecast(data) ==
  LET historyData == SelectSeq(data, IsHistory)
      forecastData == SelectSeq(data, IsForecast)
      connector == IF Len(historyData) > 0
                   THEN <<historyData[Len(historyData)]>> \o forecastData
                   ELSE forecastData
  IN [component |-> "PriceForecast", placeholder |-> FALSE,
      historyData |-> historyData, forecastData |-> forecastData,
      connector |-> connector]

\* StockChart({ data }) of the Next.js frontend
StockChart(data) ==
  IF Len(data) = 0
  THEN [component |-> "StockChart", placeholder |-> TRUE, historyData |-> <<>>,
        forecastData |-> <<>>, connector |-> <<>>]
  ELSE
  LET historyData == SelectSeq(data, IsHistory)
      forecastData == SelectSeq(data, IsForecast)
      connectorData ==
        IF Len(historyData) > 0
        THEN <<historyData[Len(historyData)]>> \o
             (IF Len(forecastData) > 0 THEN <<forecastData[1]>> ELSE <<>>)
        ELSE <<>>
  IN [component |-> "StockChart", placeholder |-> FALSE,
      historyData |-> historyData, forecastData |-> forecastData,
      connector |-> connectorData]

ChartPoints ==
  { Point("Jan", 150, "history"), Point("Feb", 155, "history"),
    Point("Sep", 190, "forecast"), Point("Oct", 195, "forecast") }

ChartInputs ==
  UNION {[1..n -> ChartPoints] : n \in 0..MaxPoints} \cup {mockForecast}

ChartInit ==
  /\ userInput = initialUserInput
  /\ isLoading = FALSE
  /\ apiError = Null
  /\ analysisResults = mockData
  /\ awaiting = {}
  /\ netlog = <<>>
  /\ chartData \in ChartInputs
  /\ chart = NoChart
  /\ formState = NoSearchForm

RenderPriceForecast ==
  /\ chart' = PriceForecast(chartData)
  /\ UNCHANGED chartData
  /\ UNCHANGED storeVars
  /\ UNCHANGED formState

RenderStockChart ==
  /\ chart' = StockChart(chartData)
  /\ UNCHANGED chartData
  /\ UNCHANGED storeVars
  /\ UNCHANGED formState

ChartNext == RenderPriceForecast \/ RenderStockChart

ChartSpec == ChartInit /\ [][ChartNext]_vars

-----------------------------------------------------------------------------
(* Vocabulary of the properties *)

LastEvent == netlog[Len(netlog)]
LastIs(op) == netlog # <<>> /\ LastEvent.op = op
LastDelivery == Outcome[LastEvent.outcome]

Contains(s, token) == \E i \in 1..Len(s) : s[i] = token

\* a response with no error field whose analysis is a non-empty string that
\* does not start with "Error:" and is valid JSON
WellFormed(d) ==
  /\ d.fulfilled
  /\ ~Truthy(Get(d.data, "error"))
  /\ Get(d.data, "analysis").t = "str"
  /\ Get(d.data, "analysis").s # <<>>
  /\ ~StartsWith(Get(d.data, "analysis").s, "Error:")
  /\ JSONParse(Get(d.data, "analysis").s).ok

Payload(d) == JSONParse(Get(d.data, "analysis").s).v

\* the AnalysisResult interface of lib/types.ts
WellShaped(v) ==
  /\ v.t = "obj"
  /\ Get(v, "analysis").t = "str"
  /\ Get(v, "keyNews").t = "str"
  /\ Get(v, "forecastData").t = "arr"
  /\ Get(v, "investmentAdvice").t = "obj"
  /\ Get(v, "recommendedStocks").t = "arr"

\* the message a failed delivery is expected to leave in apiError
FailureMessage(d) == Str(CatchMessage(TryBlock(d).error))

\* every fetchAnalysis call so far was made while the submit button was
\* enabled, that is, while the dashboard was not showing the spinner
ButtonGated ==
  \A i \in 1..Len(netlog) : netlog[i].op = "request" => netlog[i].view # "spinner"

NoSuccessYet ==
  \A i \in 1..Len(netlog) :
    netlog[i].op = "settle" => TryBlock(Outcome[netlog[i].outcome]).threw

-----------------------------------------------------------------------------
(* C1: right after a request settles with a well-formed response the session
   is Success: isLoading is false, analysisResults is the parsed payload and
   apiError is null, whatever happened to overlapping requests before. *)
C1_WellFormedGivesSuccess ==
  (LastIs("settle") /\ WellFormed(LastDelivery)) =>
    /\ isLoading = FALSE
    /\ analysisResults = Payload(LastDelivery)
    /\ apiError = Null

(* C2: two overlapping submissions, both settled: the store reflects exactly
   the call that settled last; a success leaves its result and no error, a
   failure leaves its message. *)
C2_LastWriteWins ==
  ( /\ Len(netlog) = 4
    /\ netlog[1].op = "request" /\ netlog[2].op = "request"
    /\ netlog[3].op = "settle" /\ netlog[4].op = "settle" ) =>
    /\ isLoading = FALSE
    /\ IF WellFormed(LastDelivery)
       THEN analysisResults = Payload(LastDelivery) /\ apiError = Null
       ELSE apiError = FailureMessage(LastDelivery)

(* C3 as stated: whenever isLoading is true at most one request is in flight,
   for any sequence of fetchAnalysis calls and settlements. *)
C3_SingleFlightAlways ==
  isLoading => Cardinality(awaiting) <= 1

(* C3 as amended: whenever isLoading is true and every fetchAnalysis call so
   far was made through the submit button, which is disabled while isLoading,
   at most one request is in flight. *)
C3_SingleFlightWhenGated ==
  (ButtonGated /\ isLoading) => Cardinality(awaiting) <= 1

C3_Witness ==
  /\ ButtonGated /\ isLoading
  /\ Issued = 2 /\ Cardinality(awaiting) = 1

(* C4: fetchAnalysis is accepted in every state (spinner, error or results on
   screen), and its immediate effect is isLoading = true with apiError
   cleared. *)
C4_SubmitEntersLoading ==
  /\ Issued < MaxRequests => ENABLED Submit
  /\ LastIs("request") => (isLoading = TRUE /\ apiError = Null)

C4_Witness ==
  /\ LastIs("request") /\ LastEvent.view = "error"
  /\ isLoading /\ apiError = Null

(* C5: every failed settlement leaves isLoading false and a non-null message
   in apiError, which contains the payload's own detail for an "Error: ..."
   payload, and leaves analysisResults as it was. *)
C5_FailureGivesError ==
  [][ ( /\ Len(netlog') = Len(netlog) + 1
        /\ netlog'[Len(netlog')].op = "settle"
        /\ ~WellFormed(Outcome[netlog'[Len(netlog')].outcome]) ) =>
      ( /\ isLoading' = FALSE
        /\ apiError' # Null /\ apiError'.t = "str" /\ apiError'.s # <<>>
        /\ netlog'[Len(netlog')].outcome = "analysis_error_prefix" =>
             Contains(apiError'.s, " model unavailable")
        /\ analysisResults' = analysisResults ) ]_vars

C5_Witness ==
  /\ LastIs("settle") /\ ~WellFormed(LastDelivery)
  /\ ~isLoading /\ apiError # Null
  /\ analysisResults = Payload(Outcome["result_a"])

\* an analysis string that is valid JSON but not an AnalysisResult
ParsesButMisshapen(d) == WellFormed(d) /\ ~WellShaped(Payload(d))

(* C6: a 2xx response whose analysis string parses as JSON but is not an
   AnalysisResult (null, a number, an object without forecastData or
   investmentAdvice) is a failure: the settlement leaves an error and
   analysisResults never holds a value that is not a well-shaped
   AnalysisResult. *)
C6_MisshapenPayloadRejected ==
  /\ (LastIs("settle") /\ ParsesButMisshapen(LastDelivery)) =>
       (isLoading = FALSE /\ apiError # Null)
  /\ WellShaped(analysisResults)

\* the most recent settlement that threw, if any
LastFailure ==
  LET failed == {i \in 1..Len(netlog) :
                   /\ netlog[i].op = "settle"
                   /\ TryBlock(Outcome[netlog[i].outcome]).threw}
  IN IF failed = {} THEN 0 ELSE CHOOSE i \in failed : \A j \in failed : j <= i

CarriesResponse(d) == ~d.fulfilled /\ d.hasResponse
NoResponseAtAll(d) == ~d.fulfilled /\ ~d.hasResponse /\ d.hasRequest

(* C7: a failure that carries a server response is stored in the
   service-rejected form with the server's detail, whether or not the error
   also has a request object; the connectivity message naming the base URL is
   stored only when a request was made and no response was received; the two
   messages never coincide. *)
C7_MessagePriority ==
  /\ (LastIs("settle") /\ CarriesResponse(LastDelivery)) =>
       /\ StartsWith(apiError.s, "Server Error: ")
       /\ Truthy(Get(LastDelivery.data, "detail")) =>
            apiError.s = <<"Server Error: ">> \o Get(LastDelivery.data, "detail").s
       /\ apiError # Str(ConnectionMessage)
  /\ (LastIs("settle") /\ NoResponseAtAll(LastDelivery)) =>
       /\ apiError = Str(ConnectionMessage)
       /\ Contains(apiError.s, API_BASE_URL)
  /\ apiError = Str(ConnectionMessage) =>
       /\ LastFailure # 0
       /\ NoResponseAtAll(Outcome[netlog[LastFailure].outcome])

C7_Witness ==
  /\ LastIs("settle") /\ LastEvent.outcome = "http_detail"
  /\ LastDelivery.hasRequest /\ LastDelivery.hasResponse
  /\ apiError = Str(<<"Server Error: ", "Ticker not found">>)

(* C8 as stated: while no request has succeeded yet, in particular in the
   initial state, the stored result is null. *)
C8_NoResultBeforeSuccess ==
  NoSuccessYet => analysisResults = Null

(* C8 as amended: while no request has succeeded yet, in particular in the
   initial state, the stored result is the built-in mockData; only a
   successful settlement replaces it. *)
C8_MockDataBeforeSuccess ==
  NoSuccessYet => analysisResults = mockData

C8_Witness ==
  /\ NoSuccessYet /\ Settled >= 1
  /\ ~isLoading /\ apiError # Null
  /\ analysisResults = mockData

(* C9: whenever isLoading is true or apiError is non-null, DashboardDisplay
   returns the spinner or the error view and reads no field of
   analysisResults, so a stale result is never rendered under Error. *)
C9_NoResultReadWhileLoadingOrError ==
  (isLoading \/ apiError # Null) =>
    (DashboardDisplay \in {"spinner", "error"} /\ FieldsRead = {})

C9_Witness ==
  /\ ~isLoading /\ apiError # Null
  /\ analysisResults = Payload(Outcome["result_a"])
  /\ DashboardDisplay = "error" /\ FieldsRead = {}

\* the connector the forecast transform is specified to produce
SpecifiedConnector(c) ==
  IF Len(c.historyData) > 0
  THEN <<c.historyData[Len(c.historyData)]>> \o c.forecastData
  ELSE c.forecastData

(* C10 as stated: for every ForecastPoint sequence the connector of the
   forecast transform (PriceForecast and StockChart alike) is the last
   history point followed by all forecast points, or exactly the forecast
   points when there is no history point. *)
C10_ConnectorEveryChart ==
  chart.component # "none" => chart.connector = SpecifiedConnector(chart)

(* C10 as amended: for every ForecastPoint sequence, PriceForecast's connector
   is the last history point followed by all forecast points, or exactly the
   forecast points when there is no history point (for the 8 + 4 mock points:
   Aug, Sep, Oct, Nov, Dec); StockChart's connectorData is the last history
   point followed by the first forecast point only, and is empty when there
   is no history point. *)
C10_ConnectorPerChart ==
  /\ chart.component = "PriceForecast" =>
       /\ chart.connector = SpecifiedConnector(chart)
       /\ chartData = mockForecast =>
            chart.connector =
              << Point("Aug", 185, "history"), Point("Sep", 190, "forecast"),
                 Point("Oct", 195, "forecast"), Point("Nov", 200, "forecast"),
                 Point("Dec", 205, "forecast") >>
  /\ chart.component = "StockChart" =>
       chart.connector =
         IF Len(chart.historyData) = 0 THEN <<>>
         ELSE <<chart.historyData[Len(chart.historyData)]>> \o
              (IF Len(chart.forecastData) > 0
               THEN <<chart.forecastData[1]>> ELSE <<>>)

C10_Witness ==
  /\ chart.component = "PriceForecast"
  /\ chartData = mockForecast
  /\ Len(chart.historyData) = 8 /\ Len(chart.forecastData) = 4
  /\ Len(chart.connector) = 5

\* a contiguous run of history points followed by a contiguous run of
\* forecast points
IsForecastPoint(d) == d.o["type"].s = <<"forecast">>

HistoryThenForecast(data) ==
  \A i, j \in 1..Len(data) :
    (i < j /\ IsForecastPoint(data[i])) => IsForecastPoint(data[j])

(* C11: for every ForecastPoint sequence that is a run of history points
   followed by a run of forecast points, the transform's historySeries
   followed by its forecastSeries is exactly the original sequence, order and
   duplicates included. *)
C11_SeriesReconstructInput ==
  (chart.component # "none" /\ HistoryThenForecast(chartData)) =>
    chart.historyData \o chart.forecastData = chartData

C11_Witness ==
  /\ chart.component # "none"
  /\ HistoryThenForecast(chartData)
  /\ Len(chart.historyData) = 2 /\ chart.historyData[1] = chart.historyData[2]
  /\ Len(chart.forecastData) = 1
  /\ chart.historyData \o chart.forecastData = chartData

\* the profile a form edit is specified to produce, written out per input
UpperCased ==
  <<"m", "s", "f", "t">> :> <<"M", "S", "F", "T">> @@
  <<"A", "a", "p", "l">> :> <<"A", "A", "P", "L">>

Segments ==
  <<"a", ",", " ", "b">> :> << <<"a">>, <<"b">> >> @@
  <<"a", ",", ",", " ">> :> << <<"a">>, <<>>, <<>> >>

\* the step replaces one field of the store's profile and nothing else
StoreFieldBecomes(key, value) ==
  /\ userInput' = [userInput EXCEPT ![key] = value]
  /\ UNCHANGED <<isLoading, apiError, analysisResults, formState>>

\* the step replaces one field of the page's profile and nothing else
PageFieldBecomes(key, value) ==
  /\ formState' = [formState EXCEPT !.state[key] = value]
  /\ UNCHANGED <<userInput, isLoading, apiError, analysisResults>>

(* C12: a form edit of one profile field stores the transformed value, the
   upper-cased text for ticker, the comma-separated segments, each trimmed
   and the empty ones kept, for financialCondition, the value as given for
   riskTolerance, tradingPreferences and a parsed expectedReturn, and leaves
   every other profile field, isLoading, apiError and analysisResults as
   they were; in ProfileInputForm and in SearchForm alike. *)
C12_EditReplacesOneField ==
  [][ /\ \A text \in TickerTexts :
           /\ onTickerChange(text) => StoreFieldBecomes("ticker", UpperCased[text])
           /\ SearchFormTickerChange(text) => PageFieldBecomes("ticker", UpperCased[text])
      /\ \A text \in FinancialConditionTexts :
           /\ onFinancialConditionChange(text) =>
                StoreFieldBecomes("financialCondition", Segments[text])
           /\ SearchFormFinancialConditionChange(text) =>
                PageFieldBecomes("financialCondition", Segments[text])
      /\ \A option \in RiskOptions :
           /\ onRiskToleranceChange(option) => StoreFieldBecomes("riskTolerance", option)
           /\ SearchFormRiskToleranceChange(option) =>
                PageFieldBecomes("riskTolerance", option)
      /\ \A text \in TradingPreferencesTexts :
           /\ onTradingPreferencesChange(text) =>
                StoreFieldBecomes("tradingPreferences", text)
           /\ SearchFormTradingPreferencesChange(text) =>
                PageFieldBecomes("tradingPreferences", text)
      /\ onExpectedReturnChange(<<"2", "0">>) => StoreFieldBecomes("expectedReturn", Num(20))
      /\ SearchFormExpectedReturnChange(<<"2", "0">>) =>
           PageFieldBecomes("expectedReturn", Num(20))
      /\ \A text \in ExpectedReturnTexts :
           /\ onExpectedReturnChange(text) =>
                StoreFieldBecomes("expectedReturn", userInput'.expectedReturn)
           /\ SearchFormExpectedReturnChange(text) =>
                PageFieldBecomes("expectedReturn", formState'.state.expectedReturn) ]_vars

C12_Witness ==
  /\ ~formState.mounted
  /\ isLoading = TRUE
  /\ userInput = [ ticker |-> <<"M", "S", "F", "T">>,
                   financialCondition |-> << <<"a">>, <<>>, <<>> >>,
                   expectedReturn |-> Num(20),
                   riskTolerance |-> "High",
                   tradingPreferences |-> <<"l", "o", "n", "g">> ]
  /\ \E call \in awaiting : call.body = initialUserInput

(* C13: every fetchAnalysis call issues exactly one request, whose body is
   userInput as it was at the call; neither the call nor the settlement
   changes userInput; a later edit leaves the requests in flight as they
   were; a settlement, failed or not, issues no new request; so the requests
   issued (settled or in flight) are as many as the calls. *)
C13_OneRequestPerCall ==
  /\ [](Issued = Settled + Cardinality(awaiting))
  /\ [](\A c1, c2 \in awaiting : c1.id = c2.id => c1 = c2)
  /\ [][ LET grew == Len(netlog') = Len(netlog) + 1
             event == netlog'[Len(netlog')]
         IN /\ (grew /\ event.op = "request") =>
                 /\ \A c \in awaiting : c.id # event.id
                 /\ awaiting' = awaiting \cup {[id |-> event.id, body |-> userInput]}
                 /\ userInput' = userInput
            /\ (grew /\ event.op = "settle") =>
                 /\ awaiting' \subseteq awaiting
                 /\ Cardinality(awaiting') = Cardinality(awaiting) - 1
                 /\ userInput' = userInput
            /\ ~grew => awaiting' = awaiting ]_vars

C13_Witness ==
  /\ Issued = 2 /\ Settled = 1
  /\ \E i \in 1..Len(netlog) :
       netlog[i].op = "settle" /\ TryBlock(Outcome[netlog[i].outcome]).threw
  /\ \E c \in awaiting : c.body # userInput

\* a text parseInt finds no number in
Unparsable(text) == ParseInt(text) = NaN

(* C14: an expectedReturn text that does not parse as a number leaves the
   profile's expectedReturn as it was, and NaN is never stored in a profile
   nor carried in the body of a request. *)
C14_UnparsableIgnored ==
  /\ [](/\ userInput.expectedReturn # NaN
        /\ formState.state.expectedReturn # NaN
        /\ \A call \in awaiting : call.body.expectedReturn # NaN)
  /\ [][ \A text \in ExpectedReturnTexts :
           (Unparsable(text) /\ (onExpectedReturnChange(text)
                                   \/ SearchFormExpectedReturnChange(text))) =>
             /\ userInput'.expectedReturn = userInput.expectedReturn
             /\ formState'.state.expectedReturn = formState.state.expectedReturn ]_vars

(* C15: isLoading = true and apiError non-null never hold together, for any
   interleaving of fetchAnalysis calls and settlements. *)
C15_LoadingExcludesError ==
  ~(isLoading = TRUE /\ apiError # Null)

C15_Witness ==
  /\ awaiting # {}
  /\ isLoading = FALSE
  /\ apiError # Null

\* the settled delivery made the try block throw an error that has neither a
\* response nor a request
NeitherResponseNorRequest(d) ==
  /\ TryBlock(d).threw
  /\ ~TryBlock(d).error.hasResponse
  /\ ~TryBlock(d).error.hasRequest

(* C16 as stated: a failure with neither a server response nor a request
   object (a 2xx body with an error field, an empty or "Error:"-prefixed
   payload, a JSON parse failure) stores the generic message
   "Failed to fetch analysis.". *)
C16_GenericMessageStored ==
  (LastIs("settle") /\ NeitherResponseNorRequest(LastDelivery)) =>
    apiError = Str(GenericMessage)

OwnMessage ==
  "setup_error" :> SetupMessage @@
  "error_field" :> ErrorField @@
  "analysis_missing" :> EmptyResponseMessage @@
  "analysis_empty" :> EmptyResponseMessage @@
  "analysis_error_prefix" :> ErrorPayload @@
  "analysis_not_json" :> SyntaxErrorMessage

(* C16 as amended: a failure with neither a server response nor a request
   object stores the thrown error's own message: the text of the error field,
   "Empty response from AI", the "Error: ..." payload itself, or the JSON
   parser's message.  The generic "Failed to fetch analysis." is never
   stored. *)
C16_OwnMessageStored ==
  /\ (LastIs("settle") /\ NeitherResponseNorRequest(LastDelivery)) =>
       /\ LastEvent.outcome \in DOMAIN OwnMessage
       /\ apiError = Str(OwnMessage[LastEvent.outcome])
  /\ apiError # Str(GenericMessage)

C16_Witness ==
  /\ LastIs("settle") /\ LastEvent.outcome = "error_field"
  /\ NeitherResponseNorRequest(LastDelivery)
  /\ apiError = Str(<<"Analysis service overloaded">>)

(* C17: provided every issued request eventually settles, a state with
   isLoading = true is always followed by one with isLoading = false; with no
   request in flight isLoading is false, and it stays false until the next
   fetchAnalysis call. *)
C17_LoadingEnds ==
  /\ (isLoading = TRUE) ~> (isLoading = FALSE)
  /\ [](awaiting = {} => isLoading = FALSE)
  /\ [][ (isLoading = FALSE /\ Len(netlog') = Len(netlog)) =>
           isLoading' = FALSE ]_vars

C17_Witness ==
  /\ Settled = 2 /\ awaiting = {}
  /\ isLoading = FALSE
  /\ netlog[1].op = "request" /\ netlog[2].op = "request"

(* C18: when every fetchAnalysis call is made while isLoading is false, as
   the disabled submit button enforces, at most one request is in flight,
   isLoading is true exactly when a request is in flight, and the results
   view is never shown while a request is outstanding. *)
C18_GatedSubmissions ==
  ButtonGated =>
    /\ Cardinality(awaiting) <= 1
    /\ isLoading <=> (awaiting # {})
    /\ awaiting # {} => DashboardDisplay # "results"

C18_Witness ==
  /\ ButtonGated
  /\ Settled = 2 /\ awaiting = {}
  /\ DashboardDisplay = "results"
  /\ analysisResults = Payload(Outcome["result_b"])

====
